---- MODULE Spec2Model ----
(***************************************************************************)
(* Model of charts.py: the create_chart_url tool, which builds a           *)
(* QuickChart client object from a Chart.js config plus optional rendering *)
(* parameters, asks the QuickChart service for a short URL and returns the *)
(* URL or an error string.                                                 *)
(*                                                                         *)
(* Python values are records [type, repr].  Python strings that the tool   *)
(* returns are sequences of text tokens, so that the f-string on line 77   *)
(* is a real concatenation.                                                *)
(***************************************************************************)
EXTENDS Naturals, Sequences, FiniteSets

VARIABLES pc, call, frame, qc, resp, ret, result, calls, heap, wire

vars == <<pc, call, frame, qc, resp, ret, result, calls, heap, wire>>

(* ---------------------------- bounds ----------------------------------- *)

\* calls one caller makes in sequence (Spec)
MaxCalls == 2

\* concurrent invocations (SpecConc)
NumThreads == 2

(* ---------------------------- Python values ---------------------------- *)

Py(t, r) == [type |-> t, repr |-> r]

None == Py("NoneType", "None")

\* a parameter the caller left out of the call
Omitted == Py("omitted", "")

\* an attribute of the client object that create_chart_url has not assigned
Unset == Py("unset", "")

BarConfig == Py("dict", "{'type': 'bar', 'data': {...}}")
EmptyConfig == Py("dict", "{}")
RawConfig == Py("str", "'{type: \"bar\", data: {...}}'")
IntConfig == Py("int", "42")
ListConfig == Py("list", "[1, 2]")

ConfigValues == {BarConfig, EmptyConfig, RawConfig, IntConfig, ListConfig, None}

WidthValues == {Omitted, None, Py("int", "0"), Py("int", "800")}
HeightValues == {Omitted, Py("int", "0"), Py("int", "600")}
FormatValues == {Omitted, None, Py("str", "'png'"), Py("str", "'svg'")}
BackgroundValues == {Omitted, Py("str", "''"), Py("str", "'#000000'")}
PixelRatioValues == {Omitted, Py("float", "0.0"), Py("float", "2.0")}
VersionValues == {Omitted, Py("str", "''"), Py("str", "'3'")}

OptionNames ==
  {"width", "height", "format", "background_color", "device_pixel_ratio", "version"}

\* the calls a caller can write: config plus each option given or left out
CallArgs ==
  [config : ConfigValues, width : WidthValues, height : HeightValues,
   format : FormatValues, background_color : BackgroundValues,
   device_pixel_ratio : PixelRatioValues, version : VersionValues]

AllOmitted(c) ==
  [config |-> c, width |-> Omitted, height |-> Omitted, format |-> Omitted,
   background_color |-> Omitted, device_pixel_ratio |-> Omitted,
   version |-> Omitted]

AllSupplied(c) ==
  [config |-> c, width |-> Py("int", "800"), height |-> Py("int", "600"),
   format |-> Py("str", "'svg'"), background_color |-> Py("str", "'#000000'"),
   device_pixel_ratio |-> Py("float", "2.0"), version |-> Py("str", "'3'")]

\* the calls made by concurrent invocations
ConcCallArgs ==
  {AllOmitted(BarConfig), AllSupplied(EmptyConfig),
   [AllOmitted(BarConfig) EXCEPT !.width = Py("int", "0"), !.format = None],
   AllSupplied(IntConfig)}

NoCall == AllOmitted(Unset)

\* bool(v)
Truthy(v) ==
  v \notin {None, Py("int", "0"), Py("float", "0.0"), Py("str", "''"),
            EmptyConfig, Py("list", "[]")}

(* ---------------------------- signature -------------------------------- *)

\* the defaults the docstring lists, put into the signature
DefaultFromDocstring(name) ==
  IF name = "format" THEN Py("str", "'png'")
  ELSE IF name = "width" THEN Py("int", "500")
  ELSE IF name = "height" THEN Py("int", "300")
  ELSE None

Default(name) == IF name = "format" THEN Py("str", "'png'") ELSE None

\* binding of a call to the parameters of create_chart_url
Bind(a) ==
  [n \in DOMAIN a |->
     IF n # "config" /\ a[n] = Omitted THEN Default(n) ELSE a[n]]

(* ---------------------------- client object ---------------------------- *)

Fields == OptionNames \cup {"config"}

\* qc = QuickChart(): no attribute assigned by the tool yet
QuickChart == [f \in Fields |-> Unset]

NoRef == <<0, 0>>

\* one client object created at module level and used by every invocation
SharedId(p, n) == <<0, 1>>

\* identity of the object a QuickChart() call creates
NewId(p, n) == <<p, n>>

New(h, id) ==
  [x \in DOMAIN h \cup {id} |-> IF x = id THEN QuickChart ELSE h[x]]

\* qc.<field> = value
SetAttr(h, id, field, value) ==
  [h EXCEPT ![id] = [@ EXCEPT ![field] = value]]

\* if value: qc.<field> = value
SetIfTruthy(h, id, field, value) ==
  IF Truthy(value) THEN SetAttr(h, id, field, value) ELSE h

\* if value is not None: qc.<field> = value
SetIfNotNone(h, id, field, value) ==
  IF value # None THEN SetAttr(h, id, field, value) ELSE h

\* isinstance(config, (dict, list))
IsDictOrList(v) == v.type \in {"dict", "list"}

\* isinstance(config, (dict, str))
IsDictOrStr(v) == v.type \in {"dict", "str"}

\* isinstance(config, dict)
IsDict(v) == v.type = "dict"

(* ---------------------------- strings ---------------------------------- *)

ValidationMsg ==
  <<"Error: 'config' parameter must be a valid dictionary (JSON object).">>

UpstreamPrefix == <<"Error generating QuickChart URL: ">>

Urls ==
  {<<"https://quickchart.io/chart/render/sf-1">>,
   <<"https://quickchart.io/chart/render/sf-2">>}

\* str(e) of the exception the client raises
Details ==
  {<<>>, <<"Connection refused">>,
   <<"Invalid response code from chart creation endpoint">>}

Ok(u) == [ok |-> TRUE, text |-> u]
Raise(d) == [ok |-> FALSE, text |-> d]
NoResp == [ok |-> FALSE, text |-> <<"<no response>">>]

Outcomes == {Ok(u) : u \in Urls} \cup {Raise(d) : d \in Details}

Returned(s) == [how |-> "return", text |-> s]
Raised(d) == [how |-> "raise", text |-> d]
NoResult == [how |-> "none", text |-> <<>>]

\* url = qc.get_short_url(); return url     (no try)
GetShortUrlUnguarded(o) ==
  IF o.ok THEN Returned(o.text) ELSE Raised(o.text)

\* the success path formatted like the failure path
TryGetShortUrlAlwaysFormats(o) == Returned(UpstreamPrefix \o o.text)

\* except Exception: return "Error generating QuickChart URL: "
TryGetShortUrlNoDetail(o) ==
  IF o.ok THEN Returned(o.text) ELSE Returned(UpstreamPrefix)

\* try: url = qc.get_short_url(); return url
\* except Exception as e: return f"Error generating QuickChart URL: {e}"
TryGetShortUrl(o) ==
  IF o.ok THEN Returned(o.text) ELSE Returned(UpstreamPrefix \o o.text)

\* a request whose payload was sent before is answered from a cache
PostCached(w, from, id, h) ==
  IF \E i \in 1 .. Len(w) : w[i].payload = h[id]
    THEN w
    ELSE Append(w, [from |-> from, obj |-> id, payload |-> h[id]])

\* the request the client sends: a snapshot of the client object
Post(w, from, id, h) ==
  Append(w, [from |-> from, obj |-> id, payload |-> h[id]])

(* ---------------------------- state ------------------------------------ *)

InitOf(T) ==
  /\ pc = [p \in T |-> "idle"]
  /\ call = [p \in T |-> NoCall]
  /\ frame = [p \in T |-> NoCall]
  /\ qc = [p \in T |-> NoRef]
  /\ resp = [p \in T |-> NoResp]
  /\ ret = [p \in T |-> NoResult]
  /\ result = [p \in T |-> NoResult]
  /\ calls = [p \in T |-> 0]
  /\ heap = <<>>
  /\ wire = <<>>

Init == InitOf({1})

InitConc == InitOf(1 .. NumThreads)

Threads == DOMAIN pc

\* the invocation thread p is in
Cur(p) == <<p, calls[p]>>

(* ---------------------------- actions ---------------------------------- *)

Enter(p, a) ==
  /\ call' = [call EXCEPT ![p] = a]
  /\ frame' = [frame EXCEPT ![p] = Bind(a)]
  /\ qc' = [qc EXCEPT ![p] = NoRef]
  /\ resp' = [resp EXCEPT ![p] = NoResp]
  /\ ret' = [ret EXCEPT ![p] = NoResult]
  /\ pc' = [pc EXCEPT ![p] = "new"]
  /\ UNCHANGED <<result, calls, heap, wire>>

\* a caller's first call of the tool, with arguments from S
Invoke(p, S) ==
  /\ pc[p] = "idle"
  /\ calls[p] = 0
  /\ \E a \in S : Enter(p, a)

\* the caller repeats its call with identical arguments
Reinvoke(p) ==
  /\ pc[p] = "idle"
  /\ calls[p] > 0
  /\ calls[p] < MaxCalls
  /\ Enter(p, call[p])

\* line 53
NewClient(p) ==
  /\ pc[p] = "new"
  /\ qc' = [qc EXCEPT ![p] = NewId(p, calls[p])]
  /\ heap' = New(heap, NewId(p, calls[p]))
  /\ pc' = [pc EXCEPT ![p] = "check"]
  /\ UNCHANGED <<call, frame, resp, ret, result, calls, wire>>

\* lines 56-58
CheckConfig(p) ==
  /\ pc[p] = "check"
  /\ IF ~IsDict(frame[p].config)
       THEN /\ ret' = [ret EXCEPT ![p] = Returned(ValidationMsg)]
            /\ pc' = [pc EXCEPT ![p] = "return"]
            /\ heap' = heap
       ELSE /\ heap' = SetAttr(heap, qc[p], "config", frame[p].config)
            /\ pc' = [pc EXCEPT ![p] = "width"]
            /\ ret' = ret
  /\ UNCHANGED <<call, frame, qc, resp, result, calls, wire>>

SetOption(p, at, field, next) ==
  /\ pc[p] = at
  /\ heap' = SetIfNotNone(heap, qc[p], field, frame[p][field])
  /\ pc' = [pc EXCEPT ![p] = next]
  /\ UNCHANGED <<call, frame, qc, resp, ret, result, calls, wire>>

\* lines 60-61
SetWidth(p) == SetOption(p, "width", "width", "height")

\* lines 62-63
SetHeight(p) == SetOption(p, "height", "height", "format")

\* lines 64-65
SetFormat(p) == SetOption(p, "format", "format", "background_color")

\* lines 66-67
SetBackgroundColor(p) ==
  SetOption(p, "background_color", "background_color", "device_pixel_ratio")

\* lines 68-69
SetDevicePixelRatio(p) ==
  SetOption(p, "device_pixel_ratio", "device_pixel_ratio", "version")

\* lines 70-71
SetVersion(p) == SetOption(p, "version", "version", "send")

\* line 74, the call: the client posts the request
GetShortUrl(p) ==
  /\ pc[p] = "send"
  /\ wire' = Post(wire, Cur(p), qc[p], heap)
  /\ pc' = [pc EXCEPT ![p] = "wait"]
  /\ UNCHANGED <<call, frame, qc, resp, ret, result, calls, heap>>

\* a failed call is tried once more
ReceiveRetry(p) ==
  /\ pc[p] = "wait"
  /\ \E o \in Outcomes :
       /\ resp' = [resp EXCEPT ![p] = o]
       /\ IF ~o.ok /\ Len(wire) < 2 * MaxCalls
            THEN /\ pc' = [pc EXCEPT ![p] = "send"]
                 /\ ret' = ret
            ELSE /\ pc' = [pc EXCEPT ![p] = "return"]
                 /\ ret' = [ret EXCEPT ![p] = TryGetShortUrl(o)]
  /\ UNCHANGED <<call, frame, qc, result, calls, heap, wire>>

\* lines 74-77: the service answers or the client raises
Receive(p) ==
  /\ pc[p] = "wait"
  /\ \E o \in Outcomes :
       /\ resp' = [resp EXCEPT ![p] = o]
       /\ ret' = [ret EXCEPT ![p] = TryGetShortUrl(o)]
  /\ pc' = [pc EXCEPT ![p] = "return"]
  /\ UNCHANGED <<call, frame, qc, result, calls, heap, wire>>

\* the caller receives the value (or the exception)
Return(p) ==
  /\ pc[p] = "return"
  /\ result' = [result EXCEPT ![p] = ret[p]]
  /\ calls' = [calls EXCEPT ![p] = @ + 1]
  /\ pc' = [pc EXCEPT ![p] = "idle"]
  /\ UNCHANGED <<call, frame, qc, resp, ret, heap, wire>>

Step(p) ==
  \/ NewClient(p)
  \/ CheckConfig(p)
  \/ SetWidth(p)
  \/ SetHeight(p)
  \/ SetFormat(p)
  \/ SetBackgroundColor(p)
  \/ SetDevicePixelRatio(p)
  \/ SetVersion(p)
  \/ GetShortUrl(p)
  \/ Receive(p)
  \/ Return(p)

Next ==
  \E p \in Threads :
    \/ Invoke(p, CallArgs)
    \/ Reinvoke(p)
    \/ Step(p)

Spec == Init /\ [][Next]_vars

NextConc ==
  \E p \in Threads :
    \/ Invoke(p, ConcCallArgs)
    \/ Step(p)

SpecConc == InitConc /\ [][NextConc]_vars

(* ---------------------------- properties ------------------------------ *)

StartsWith(s, pre) == Len(s) >= Len(pre) /\ SubSeq(s, 1, Len(pre)) = pre

\* positions on the wire of the requests sent by invocation id
Sent(id) == {i \in 1 .. Len(wire) : wire[i].from = id}

\* the call that produced the i-th request
CallOf(i) == call[wire[i].from[1]]

Answered(p) == resp[p] \in Outcomes

IsMessage(s) ==
  \/ s \in Urls
  \/ s = ValidationMsg
  \/ \E d \in Details : s = UpstreamPrefix \o d

\* C1: every invocation, whatever the config, the options and the outcome of
\* the service call, can always take its next step, reaches its return with a
\* string (a URL or an error message) and never hands an exception to its
\* caller.
C1_Total ==
  \A p \in Threads :
    /\ pc[p] # "idle" => ENABLED Step(p)
    /\ pc[p] = "return" => ret[p].how = "return" /\ IsMessage(ret[p].text)
    /\ calls[p] > 0 => result[p].how = "return" /\ IsMessage(result[p].text)
    /\ ret[p].how # "raise" /\ result[p].how # "raise"

C1_Witness ==
  \E p \in Threads :
    /\ calls[p] > 0
    /\ pc[p] = "idle"
    /\ Answered(p)
    /\ ~resp[p].ok
    /\ call[p].width # Omitted
    /\ result[p].how = "return"

\* C2: a config that is neither a mapping nor a string makes the invocation
\* return the validation error string, and that invocation sends no request
\* to the service, whatever options were supplied.
C2_InvalidConfigRejected ==
  \A p \in Threads :
    (pc[p] # "idle" /\ call[p].config.type \notin {"dict", "str"}) =>
      /\ Sent(Cur(p)) = {}
      /\ pc[p] \in {"new", "check", "return"}
      /\ pc[p] = "return" => ret[p] = Returned(ValidationMsg)

C2_Witness ==
  \E p \in Threads :
    /\ pc[p] = "return"
    /\ call[p].config = ListConfig
    /\ call[p].width = Py("int", "800")
    /\ call[p].version = Py("str", "'3'")
    /\ ret[p] = Returned(ValidationMsg)

\* C3: for a mapping config, when the service call succeeds the returned
\* string is exactly the URL the service issued and carries no error marker.
C3_UrlReturnedUnmodified ==
  \A p \in Threads :
    (pc[p] = "return" /\ IsDict(call[p].config) /\ Answered(p) /\ resp[p].ok) =>
      /\ ret[p].how = "return"
      /\ ret[p].text = resp[p].text
      /\ ret[p].text # ValidationMsg
      /\ ~StartsWith(ret[p].text, UpstreamPrefix)

C3_Witness ==
  \E p \in Threads :
    /\ pc[p] = "return"
    /\ call[p].config = BarConfig
    /\ Answered(p)
    /\ resp[p].ok
    /\ ret[p].text \in Urls

\* C4: every request carries the caller's config, and for each of the six
\* options every supplied value other than None, falsy ones included, is in
\* the request under its field, unchanged.
C4_SuppliedOptionsInRequest ==
  \A i \in 1 .. Len(wire) :
    /\ wire[i].payload.config = CallOf(i).config
    /\ \A f \in OptionNames :
         CallOf(i)[f] \notin {Omitted, None} =>
           wire[i].payload[f] = CallOf(i)[f]

C4_Witness ==
  \E i \in 1 .. Len(wire) :
    /\ CallOf(i).width = Py("int", "0")
    /\ CallOf(i).height = Py("int", "0")
    /\ CallOf(i).format = Py("str", "'svg'")
    /\ CallOf(i).background_color = Py("str", "''")
    /\ CallOf(i).device_pixel_ratio = Py("float", "0.0")
    /\ CallOf(i).version = Py("str", "''")
    /\ wire[i].payload.width = Py("int", "0")

\* C5 (as stated): a request has no field set for an option the caller
\* omitted; with no options at all only the config field is set.
C5_OmittedOptionsUnset ==
  \A i \in 1 .. Len(wire) :
    \A f \in OptionNames :
      CallOf(i)[f] = Omitted => wire[i].payload[f] = Unset

\* C5 (amended): a request has no field set for an omitted width, height,
\* background color, pixel ratio or version; an omitted format takes the
\* signature default and the request's format field is set to 'png'.
C5_OmittedOptionsUnsetButFormat ==
  \A i \in 1 .. Len(wire) :
    /\ \A f \in OptionNames \ {"format"} :
         CallOf(i)[f] = Omitted => wire[i].payload[f] = Unset
    /\ CallOf(i).format = Omitted =>
         wire[i].payload.format = Py("str", "'png'")

C5_Witness ==
  \E i \in 1 .. Len(wire) :
    /\ CallOf(i) = AllOmitted(BarConfig)
    /\ wire[i].payload =
         [QuickChart EXCEPT !.config = BarConfig, !.format = Py("str", "'png'")]

\* C6: when the service call fails with detail d, the invocation returns
\* (does not raise) the fixed prefix followed by d.
C6_FailureReported ==
  \A p \in Threads :
    (pc[p] = "return" /\ Answered(p) /\ ~resp[p].ok) =>
      /\ ret[p].how = "return"
      /\ StartsWith(ret[p].text, UpstreamPrefix)
      /\ SubSeq(ret[p].text, Len(UpstreamPrefix) + 1, Len(ret[p].text))
           = resp[p].text

C6_Witness ==
  \E p \in Threads :
    /\ pc[p] = "return"
    /\ Answered(p)
    /\ resp[p] = Raise(<<"Connection refused">>)
    /\ ret[p].text = <<"Error generating QuickChart URL: ", "Connection refused">>

\* C7: an invocation with a mapping config sends no request before line 74
\* and exactly one from then on, also after a failure; the object a request
\* was built from keeps the value that was sent.
C7_SentExactlyOnce ==
  /\ \A p \in Threads :
       IsDict(call[p].config) =>
         /\ \A k \in 0 .. calls[p] - 1 : Cardinality(Sent(<<p, k>>)) = 1
         /\ pc[p] \in {"wait", "return"} => Cardinality(Sent(Cur(p))) = 1
         /\ pc[p] \notin {"wait", "return", "idle"} => Sent(Cur(p)) = {}
  /\ \A i \in 1 .. Len(wire) : heap[wire[i].obj] = wire[i].payload

C7_Witness ==
  \E p \in Threads :
    /\ pc[p] = "idle"
    /\ calls[p] > 0
    /\ IsDict(call[p].config)
    /\ Answered(p)
    /\ ~resp[p].ok
    /\ Cardinality(Sent(<<p, calls[p] - 1>>)) = 1

\* C8 (as stated): a string config does not yield the validation error and
\* is forwarded to the service as the chart configuration.
C8_StringConfigAccepted ==
  \A p \in Threads :
    (pc[p] = "return" /\ call[p].config.type = "str") =>
      /\ ret[p] # Returned(ValidationMsg)
      /\ \E i \in Sent(Cur(p)) : wire[i].payload.config = call[p].config

\* C8 (amended): a string config yields the validation error and is not
\* forwarded; validation fails for exactly the configs that are not mappings.
C8_OnlyMappingAccepted ==
  \A p \in Threads :
    /\ (pc[p] = "return" /\ call[p].config.type = "str") =>
         ret[p] = Returned(ValidationMsg) /\ Sent(Cur(p)) = {}
    /\ pc[p] = "return" =>
         (ret[p] = Returned(ValidationMsg) <=> call[p].config.type # "dict")

C8_Witness ==
  \E p \in Threads :
    /\ pc[p] = "return"
    /\ call[p].config = RawConfig
    /\ ret[p] = Returned(ValidationMsg)
    /\ Sent(Cur(p)) = {}

\* C9: the second of two calls with identical arguments sends its own
\* request, separate from the first call's and with the same payload, and its
\* result is made from its own response, not from the first call's result.
C9_RepeatedCallIndependent ==
  \A p \in Threads :
    (pc[p] = "return" /\ calls[p] > 0 /\ IsDict(call[p].config)) =>
      /\ \E i \in Sent(<<p, calls[p] - 1>>) : \E j \in Sent(Cur(p)) :
           /\ i # j
           /\ wire[i].payload = wire[j].payload
      /\ Answered(p)
      /\ ret[p].text = IF resp[p].ok THEN resp[p].text
                                   ELSE UpstreamPrefix \o resp[p].text

C9_Witness ==
  \E p \in Threads :
    /\ pc[p] = "return"
    /\ calls[p] = 1
    /\ call[p] = AllSupplied(BarConfig)
    /\ resp[p].ok
    /\ result[p].text \in Urls
    /\ ret[p] # result[p]

\* C10: under any interleaving of concurrent invocations, no two invocations
\* use the same client object, and every request carries the config of the
\* invocation that sent it and, in each option field, nothing but that
\* invocation's own value.
C10_NoSharedState ==
  /\ \A p, q \in Threads :
       (p # q /\ qc[p] # NoRef) => qc[p] # qc[q]
  /\ \A i \in 1 .. Len(wire) :
       /\ wire[i].obj = wire[i].from
       /\ wire[i].payload.config = CallOf(i).config
       /\ \A f \in OptionNames :
            \/ wire[i].payload[f] \in {Unset, CallOf(i)[f]}
            \/ /\ f = "format"
               /\ CallOf(i)[f] = Omitted
               /\ wire[i].payload[f] = Py("str", "'png'")

C10_Witness ==
  \E p, q \in Threads :
    /\ p # q
    /\ pc[p] = "wait"
    /\ pc[q] = "device_pixel_ratio"
    /\ call[p] = AllOmitted(BarConfig)
    /\ call[q] = AllSupplied(EmptyConfig)
    /\ \E i \in Sent(Cur(p)) : wire[i].payload.width = Unset

====
